---- MODULE Spec2Model ----
(***************************************************************************)
(* WebSocketClient of src/websocket.cpp: one session object driven by a    *)
(* chain of completion handlers on a single-threaded io_context, and the   *)
(* main that makes it, runs the loop and returns.                          *)
(*                                                                         *)
(* An asynchronous operation lives in two places in turn: `pending` while  *)
(* the network works on it, then `ready` (the io_context's queue of        *)
(* completed operations) until the event loop invokes its handler.  Each   *)
(* handler is one atomic action.  Time is discrete; the two stream timers  *)
(* count down under Tick.                                                  *)
(***************************************************************************)
EXTENDS Integers, Sequences, FiniteSets, Bags

VARIABLES
    lifecycle_state,  \* position in the callback chain (which handler is awaited)
    pending,          \* bag of operations issued and not yet completed
    ready,            \* completed operations whose handler has not run yet
    ops,              \* names of the operations issued so far, in order
    host_,            \* WebSocketClient::host_
    instrument_,      \* WebSocketClient::instrument_
    buffer_,          \* WebSocketClient::buffer_: the bytes it holds
    tcp_timer,        \* expiry of the tcp_stream (expires_after / expires_never)
    ws_timer,         \* handshake timeout of the websocket layer
    phase_time,       \* ticks spent in Connecting and in TlsHandshaking
    use_count,        \* owners of the shared WebSocketClient
    cerr,             \* lines written to std::cerr
    cout,             \* documents written to std::cout
    decoded,          \* strings handed to Json::Reader::parse, in order
    sent,             \* messages the stream transmitted, in order
    wire,             \* messages the peer delivered, in order
    peer_cert,        \* certificate the peer presented in the TLS handshake
    ctx,              \* settings of the ssl::context of main
    argc,             \* main's argument count
    main_pc,          \* where main is
    exit_status,      \* value main returned
    other             \* a second session on the same io_context, if any

\* The state of one session
session == <<lifecycle_state, pending, ready, ops, host_, instrument_, buffer_,
             tcp_timer, ws_timer, phase_time, use_count, decoded, sent, wire,
             peer_cert>>

\* What no completion and no handler of a session touches
outside == <<ctx, argc, main_pc, exit_status, other>>

vars == <<session, cerr, cout, outside>>

----------------------------------------------------------------------------
(* Bounds of the exploration *)

MaxMsgs == 3        \* messages the peer delivers in one run
MaxEndpoints == 2   \* endpoints a successful lookup returns
MaxMsgs2 == 1       \* messages two sessions on one loop receive together

(* Program constants *)

ConnectTimeout == 30        \* expires_after(seconds(30)) in on_resolve
SslHandshakeTimeout == 30   \* expires_after(seconds(30)) in on_connect
WsHandshakeTimeout == 30    \* timeout::suggested(client).handshake_timeout

EXIT_SUCCESS == 0
EXIT_FAILURE == 1

----------------------------------------------------------------------------
(* main's ssl::context *)

\* An ssl::context as constructed verifies nothing
DefaultContext == [verify_mode |-> "verify_none", verify_paths |-> "none"]

\* a context whose verify mode was left at none
SslContext_no_verify == [verify_mode |-> "verify_none", verify_paths |-> "default"]

\* ctx after set_verify_mode(verify_peer) and set_default_verify_paths()
SslContext == [verify_mode |-> "verify_peer", verify_paths |-> "default"]

\* The check the TLS handshake makes of the peer's certificate under context
\* c: with verify_peer the chain must lead to the trust store.  No
\* verification callback is set, so the name in the certificate is not
\* looked at.
Verifies(c, cert) ==
    c.verify_mode = "verify_peer" =>
        (cert.chain = "trusted" /\ c.verify_paths = "default")

----------------------------------------------------------------------------
(* Inputs *)

Argcs == {1, 2, 3}
NotExited == -1

\* Certificates a peer may present: whether the chain leads to the system
\* trust store, and the host name it certifies
NoCert == [chain |-> "none", name |-> "none"]
Certs == [chain : {"trusted", "untrusted"},
          name : {"www.deribit.com", "evil.example"}]

Hosts == {"www.deribit.com"}
Ports == {<<"4", "4", "3">>, <<"8", "0">>}
Instruments == {"BTC-PERPETUAL", "ETH-PERPETUAL"}

\* Messages are byte strings.  Json::Reader::parse accepts a text that starts
\* with a JSON document and rejects any other, the empty text included.
JsonMsgs == {<<"{", "}">>, <<"[", "]">>}
BadMsgs == {<<"x">>, <<>>}
Msgs == JsonMsgs \cup BadMsgs

\* What a receive that fails may already have put into the buffer: the
\* beginning of a message, short of the whole
Partials == UNION {{SubSeq(m, 1, k) : k \in 0..(Len(m) - 1)} : m \in Msgs}

\* What a read of memory that is no longer the message yields
Garbage == [bytes |-> "indeterminate"]

(* Error codes a completion can carry, besides "ok" and "timeout" *)
ErrorsOf(op) ==
    CASE op = "resolve" -> {"host_not_found"}
      [] op = "connect" -> {"connection_refused"}
      [] op = "ssl_handshake" -> {"handshake_failure"}
      [] op = "handshake" -> {"upgrade_declined"}
      [] op = "write" -> {"connection_reset"}
      [] op = "read" -> {"connection_reset", "closed"}

----------------------------------------------------------------------------
(* Decimal conversions *)

Digits == <<"0", "1", "2", "3", "4", "5", "6", "7", "8", "9">>

DigitVal(c) == (CHOOSE i \in 1..10 : Digits[i] = c) - 1

RECURSIVE ParsePort(_)
\* the numeric port the resolver gives an endpoint for a numeric service string
ParsePort(s) ==
    IF s = <<>> THEN 0
    ELSE 10 * ParsePort(SubSeq(s, 1, Len(s) - 1)) + DigitVal(s[Len(s)])

\* a conversion that yields the last digit only
PortToString_last_digit(n) == <<Digits[(n % 10) + 1]>>

RECURSIVE PortToString(_)
\* std::to_string of an unsigned port number
PortToString(n) ==
    IF n < 10 THEN <<Digits[n + 1]>>
    ELSE PortToString(n \div 10) \o <<Digits[(n % 10) + 1]>>

----------------------------------------------------------------------------
(* Timers: a disarmed timer never expires; an armed one expires when left = 0 *)

Never == [armed |-> FALSE, left |-> 0]

\* expires_after that arms nothing
ExpiresAfter_nothing(n) == Never

ExpiresAfter(n) == [armed |-> TRUE, left |-> n]
Expired(t) == t.armed /\ t.left = 0
Running(t) == t.armed /\ t.left > 0
Elapse(t) == IF Running(t) THEN [t EXCEPT !.left = @ - 1] ELSE t

----------------------------------------------------------------------------
(* Operations *)

Op(name, arg) == [op |-> name, arg |-> arg]
Issue(p, name, arg) == p (+) SetToBag({Op(name, arg)})
Outstanding == BagCardinality(pending) + Len(ready)

\* Operations that run on the tcp_stream and so obey its expiry
StreamOps == {"connect", "ssl_handshake", "handshake", "write", "read"}

\* The timer the network consults before completing an operation normally
NotTimedOut(o) ==
    /\ o.op \in StreamOps => ~Expired(tcp_timer)
    /\ o.op = "handshake" => ~Expired(ws_timer)

IsPrefix(s, t) == Len(s) <= Len(t) /\ SubSeq(t, 1, Len(s)) = s

\* Json::Reader::parse(data, root): whether it succeeds, and the root it gives
JsonOK(data) == \E j \in JsonMsgs : IsPrefix(j, data)
JsonRoot(data) == CHOOSE j \in JsonMsgs : IsPrefix(j, data)

\* The subscription request subscribe_to_orderbook composes
Subscription(instrument) ==
    [jsonrpc |-> "2.0", id |-> 1, method |-> "public/subscribe",
     params |-> [channels |-> << <<"book.", instrument, ".100ms">> >>]]

\* consume that was left out: the buffer keeps what it held
Consume_nothing(buf, n) == buf

\* consume that is one byte short
Consume_short(buf, n) == IF n = 0 THEN buf ELSE SubSeq(buf, n, Len(buf))

\* beast::flat_buffer::consume(n): drops the first n bytes
Consume(buf, n) == SubSeq(buf, n + 1, Len(buf))

\* A completed operation as the io_context queues it for its handler
Completion(name, ec, arg) == [op |-> name, ec |-> ec, arg |-> arg]

----------------------------------------------------------------------------
(* State at the entry of main; the members of the session hold what the    *)
(* constructor gives them                                                  *)

Init ==
    /\ lifecycle_state = "Idle"
    /\ pending = EmptyBag
    /\ ready = <<>>
    /\ ops = <<>>
    /\ host_ = <<>>
    /\ instrument_ = ""
    /\ buffer_ = <<>>
    /\ tcp_timer = Never
    /\ ws_timer = Never
    /\ phase_time = [connect |-> 0, tls |-> 0]
    /\ use_count = 0
    /\ cerr = <<>>
    /\ cout = <<>>
    /\ decoded = <<>>
    /\ sent = <<>>
    /\ wire = <<>>
    /\ peer_cert = NoCert
    /\ ctx = DefaultContext
    /\ argc \in Argcs
    /\ main_pc = "start"
    /\ exit_status = NotExited
    /\ other = <<>>

----------------------------------------------------------------------------
(* main up to the launch of the session *)

\* argc != 2: the usage text and EXIT_FAILURE
Usage ==
    /\ main_pc = "start"
    /\ argc # 2
    /\ cerr' = cerr \o << <<"Usage: websocket_client <instrument>">>,
                          <<"Example: websocket_client BTC-PERPETUAL">> >>
    /\ exit_status' = EXIT_FAILURE
    /\ main_pc' = "returned"
    /\ UNCHANGED <<session, cout, ctx, argc, other>>

\* The io_context and the ssl::context are made, verification of the peer
\* against the default trust store is switched on, and the session is made
Setup ==
    /\ main_pc = "start"
    /\ argc = 2
    /\ ctx' = SslContext
    /\ use_count' = use_count + 1
    /\ main_pc' = "constructed"
    /\ UNCHANGED <<lifecycle_state, pending, ready, ops, host_, instrument_,
                   buffer_, tcp_timer, ws_timer, phase_time, decoded, sent,
                   wire, peer_cert, cerr, cout, argc, exit_status, other>>

\* Something in the try block throws before the session exists: the catch
\* clause reports it and main returns EXIT_FAILURE
SetupThrows ==
    /\ main_pc = "start"
    /\ argc = 2
    /\ cerr' = Append(cerr, <<"Error: ", "exception">>)
    /\ exit_status' = EXIT_FAILURE
    /\ main_pc' = "returned"
    /\ UNCHANGED <<session, cout, ctx, argc, other>>

\* ioc.run() returns once no operation is outstanding, and main returns
\* EXIT_SUCCESS
IocReturn ==
    /\ main_pc = "ioc_run"
    /\ Outstanding = 0
    /\ exit_status' = EXIT_SUCCESS
    /\ main_pc' = "returned"
    /\ UNCHANGED <<session, cerr, cout, ctx, argc, other>>

----------------------------------------------------------------------------
(* WebSocketClient::run, called once on the temporary shared_ptr of main.  *)
(* The resolve handler takes one reference (shared_from_this) and the      *)
(* temporary gives its own up at the end of the statement.                 *)

\* run whose completion handler captures the bare this pointer
run_unowned(host, port, instrument) ==
    /\ lifecycle_state = "Idle"
    /\ host_' = <<host>>
    /\ instrument_' = instrument
    /\ pending' = Issue(pending, "resolve", <<host, port>>)
    /\ ops' = Append(ops, "resolve")
    /\ use_count' = use_count - 1
    /\ lifecycle_state' = "Resolving"
    /\ UNCHANGED <<ready, buffer_, tcp_timer, ws_timer, phase_time, cerr,
                   cout, decoded, sent, wire>>

run(host, port, instrument) ==
    /\ lifecycle_state = "Idle"
    /\ host_' = <<host>>
    /\ instrument_' = instrument
    /\ pending' = Issue(pending, "resolve", <<host, port>>)
    /\ ops' = Append(ops, "resolve")
    /\ use_count' = use_count + 1 - 1
    /\ lifecycle_state' = "Resolving"
    /\ UNCHANGED <<ready, buffer_, tcp_timer, ws_timer, phase_time, cerr,
                   cout, decoded, sent, wire>>

\* main launches the session it has made and enters ioc.run()
Run ==
    /\ use_count = 1
    /\ \E host \in Hosts, port \in Ports, instrument \in Instruments :
          run(host, port, instrument)
    /\ main_pc' = "ioc_run"
    /\ UNCHANGED <<peer_cert, ctx, argc, exit_status, other>>

----------------------------------------------------------------------------
(* The network and the timers complete operations *)

\* An operation ends with an error of its phase
CompleteError ==
    \E o \in BagToSet(pending) : \E ec \in ErrorsOf(o.op) :
        /\ NotTimedOut(o)
        /\ pending' = pending (-) SetToBag({o})
        /\ ready' = Append(ready, Completion(o.op, ec, <<>>))
        /\ ws_timer' = IF o.op = "handshake" THEN Never ELSE ws_timer
        /\ \E part \in (IF o.op = "read" THEN Partials ELSE {<<>>}) :
              buffer_' = buffer_ \o part
        /\ UNCHANGED <<peer_cert, outside, lifecycle_state, ops, host_, instrument_, tcp_timer,
                       phase_time, use_count, cerr, cout, decoded, sent, wire>>

\* The lookup returns n endpoints, all on the port of the service asked for
ResolveDone ==
    \E o \in BagToSet(pending) : \E n \in 1..MaxEndpoints :
        /\ o.op = "resolve"
        /\ pending' = pending (-) SetToBag({o})
        /\ ready' = Append(ready, Completion("resolve", "ok",
                        [i \in 1..n |-> [addr |-> i, port |-> ParsePort(o.arg[2])]]))
        /\ UNCHANGED <<peer_cert, outside, lifecycle_state, ops, host_,
                       instrument_, buffer_, tcp_timer, ws_timer, phase_time, use_count, cerr, cout,
                       decoded, sent, wire>>

\* One of the candidate endpoints accepts the connection
ConnectDone ==
    \E o \in BagToSet(pending) : \E i \in 1..MaxEndpoints :
        /\ o.op = "connect"
        /\ i <= Len(o.arg)
        /\ NotTimedOut(o)
        /\ pending' = pending (-) SetToBag({o})
        /\ ready' = Append(ready, Completion("connect", "ok", o.arg[i]))
        /\ UNCHANGED <<peer_cert, outside, lifecycle_state, ops, host_,
                       instrument_, buffer_, tcp_timer, ws_timer, phase_time, use_count, cerr, cout,
                       decoded, sent, wire>>

\* The TLS handshake ends: the peer has presented a certificate, and the
\* handshake succeeds exactly when the certificate passes the context's check
SslHandshakeDone ==
    \E o \in BagToSet(pending) : \E cert \in Certs :
        /\ o.op = "ssl_handshake"
        /\ NotTimedOut(o)
        /\ pending' = pending (-) SetToBag({o})
        /\ peer_cert' = cert
        /\ ready' = Append(ready, Completion("ssl_handshake",
                        IF Verifies(ctx, cert) THEN "ok"
                        ELSE "certificate_verify_failed", <<>>))
        /\ UNCHANGED <<outside, lifecycle_state, ops, host_, instrument_,
                       buffer_, tcp_timer, ws_timer, phase_time, use_count,
                       cerr, cout, decoded, sent, wire>>

\* The websocket upgrade succeeds
HandshakeDone ==
    \E o \in BagToSet(pending) :
        /\ o.op = "handshake"
        /\ NotTimedOut(o)
        /\ pending' = pending (-) SetToBag({o})
        /\ ready' = Append(ready, Completion(o.op, "ok", <<>>))
        /\ ws_timer' = Never
        /\ UNCHANGED <<peer_cert, outside, lifecycle_state, ops, host_,
                       instrument_, buffer_, tcp_timer, phase_time, use_count,
                       cerr, cout, decoded, sent, wire>>

\* The stream transmits the bytes the write's buffer refers to.  The buffer
\* points into the local std::string of subscribe_to_orderbook, which is gone
\* by the time async_write works on it: what is read there is either still
\* the composed message or anything else.
WriteDone ==
    \E o \in BagToSet(pending) :
        /\ o.op = "write"
        /\ NotTimedOut(o)
        /\ \E bytes \in {o.arg, Garbage} : sent' = Append(sent, bytes)
        /\ pending' = pending (-) SetToBag({o})
        /\ ready' = Append(ready, Completion("write", "ok", <<>>))
        /\ UNCHANGED <<peer_cert, outside, lifecycle_state, ops, host_,
                       instrument_, buffer_, tcp_timer, ws_timer, phase_time, use_count, cerr, cout,
                       decoded, wire>>

\* The peer delivers one whole message: async_read appends it to buffer_
ReadDone ==
    \E o \in BagToSet(pending) : \E m \in Msgs :
        /\ o.op = "read"
        /\ Len(wire) < MaxMsgs
        /\ NotTimedOut(o)
        /\ pending' = pending (-) SetToBag({o})
        /\ ready' = Append(ready, Completion("read", "ok", <<>>))
        /\ buffer_' = buffer_ \o m
        /\ wire' = Append(wire, m)
        /\ UNCHANGED <<peer_cert, outside, lifecycle_state, ops, host_,
                       instrument_, tcp_timer, ws_timer, phase_time,
                       use_count, cerr, cout, decoded, sent>>

\* A timer has run out under an operation: the operation is cancelled and
\* completes with beast::error::timeout
Expire ==
    \E o \in BagToSet(pending) :
        /\ \/ o.op \in StreamOps /\ Expired(tcp_timer)
           \/ o.op = "handshake" /\ Expired(ws_timer)
        /\ pending' = pending (-) SetToBag({o})
        /\ ready' = Append(ready, Completion(o.op, "timeout", <<>>))
        /\ ws_timer' = IF o.op = "handshake" THEN Never ELSE ws_timer
        /\ UNCHANGED <<peer_cert, outside, lifecycle_state, ops, host_,
                       instrument_, buffer_, tcp_timer, phase_time, use_count, cerr, cout, decoded,
                       sent, wire>>

\* One unit of time passes under an operation that a timer watches.  Queued
\* handlers and expired timers are served before time moves on.  Where no
\* timer is armed the passage of time changes nothing.
Tick ==
    /\ ready = <<>>
    /\ \E o \in BagToSet(pending) :
          \/ o.op \in StreamOps /\ Running(tcp_timer)
          \/ o.op = "handshake" /\ Running(ws_timer)
    /\ \A o \in BagToSet(pending) :
          /\ o.op \in StreamOps => ~Expired(tcp_timer)
          /\ o.op = "handshake" => ~Expired(ws_timer)
    /\ tcp_timer' = Elapse(tcp_timer)
    /\ ws_timer' = Elapse(ws_timer)
    /\ phase_time' =
          CASE lifecycle_state = "Connecting" ->
                  [phase_time EXCEPT !.connect = @ + 1]
            [] lifecycle_state = "TlsHandshaking" ->
                  [phase_time EXCEPT !.tls = @ + 1]
            [] OTHER -> phase_time
    /\ UNCHANGED <<peer_cert, outside, lifecycle_state, pending, ready, ops, host_, instrument_,
                   buffer_, use_count, cerr, cout, decoded, sent, wire>>

----------------------------------------------------------------------------
(* The completion handlers.  Each is given the head of the ready queue by   *)
(* its Dispatch action below.  A handler was bound with shared_from_this(), *)
(* so it gives one reference up when it returns; every operation it issues  *)
(* takes one.                                                               *)

\* fail() that starts over with a new lookup instead of giving up
fail_reconnect(ec, what) ==
    /\ cerr' = Append(cerr, <<what, ec>>)
    /\ lifecycle_state' = "Resolving"
    /\ pending' = Issue(pending, "resolve", <<host_[1], <<"4", "4", "3">>>>)
    /\ ops' = Append(ops, "resolve")
    /\ use_count' = use_count + 1 - 1

\* fail() that writes the error without the phase it belongs to
fail_untagged(ec, what) ==
    /\ cerr' = Append(cerr, <<"error", ec>>)
    /\ lifecycle_state' = "Failed"
    /\ pending' = pending
    /\ ops' = ops
    /\ use_count' = use_count - 1

\* fail after which an owner of the session remains
fail_leaks(ec, what) ==
    /\ cerr' = Append(cerr, <<what, ec>>)
    /\ lifecycle_state' = "Failed"
    /\ pending' = pending
    /\ ops' = ops
    /\ use_count' = use_count

\* WebSocketClient::fail, reached by `return fail(ec, what)`: one line on
\* std::cerr, and the handler returns without issuing anything
fail(ec, what) ==
    /\ cerr' = Append(cerr, <<what, ec>>)
    /\ lifecycle_state' = "Failed"
    /\ pending' = pending
    /\ ops' = ops
    /\ use_count' = use_count - 1

\* on_resolve whose error branch reports and then falls through
on_resolve_no_return(ec, results) ==
    /\ cerr' = IF ec # "ok" THEN Append(cerr, <<"resolve", ec>>) ELSE cerr
    /\ tcp_timer' = ExpiresAfter(ConnectTimeout)
    /\ pending' = Issue(pending, "connect", results)
    /\ ops' = Append(ops, "connect")
    /\ use_count' = use_count + 1 - 1
    /\ lifecycle_state' = "Connecting"
    /\ UNCHANGED <<host_, instrument_, buffer_, ws_timer, phase_time,
                   cout, decoded, sent, wire>>

on_resolve(ec, results) ==
    IF ec # "ok"
    THEN /\ fail(ec, "resolve")
         /\ UNCHANGED <<host_, instrument_, buffer_, tcp_timer, ws_timer,
                        phase_time, cout, decoded, sent, wire>>
    ELSE /\ tcp_timer' = ExpiresAfter(ConnectTimeout)
         /\ pending' = Issue(pending, "connect", results)
         /\ ops' = Append(ops, "connect")
         /\ use_count' = use_count + 1 - 1
         /\ lifecycle_state' = "Connecting"
         /\ UNCHANGED <<host_, instrument_, buffer_, ws_timer, phase_time,
                        cerr, cout, decoded, sent, wire>>

\* on_connect that leaves the deadline armed for the connect in force
on_connect_same_deadline(ec, ep) ==
    IF ec # "ok"
    THEN /\ fail(ec, "connect")
         /\ UNCHANGED <<host_, instrument_, buffer_, tcp_timer, ws_timer,
                        phase_time, cout, decoded, sent, wire>>
    ELSE /\ host_' = host_ \o <<":">> \o PortToString(ep.port)
         /\ pending' = Issue(pending, "ssl_handshake", <<>>)
         /\ ops' = Append(ops, "ssl_handshake")
         /\ use_count' = use_count + 1 - 1
         /\ lifecycle_state' = "TlsHandshaking"
         /\ UNCHANGED <<instrument_, buffer_, tcp_timer, ws_timer,
                        phase_time, cerr, cout, decoded, sent, wire>>

on_connect(ec, ep) ==
    IF ec # "ok"
    THEN /\ fail(ec, "connect")
         /\ UNCHANGED <<host_, instrument_, buffer_, tcp_timer, ws_timer,
                        phase_time, cout, decoded, sent, wire>>
    ELSE /\ host_' = host_ \o <<":">> \o PortToString(ep.port)
         /\ tcp_timer' = ExpiresAfter(SslHandshakeTimeout)
         /\ pending' = Issue(pending, "ssl_handshake", <<>>)
         /\ ops' = Append(ops, "ssl_handshake")
         /\ use_count' = use_count + 1 - 1
         /\ lifecycle_state' = "TlsHandshaking"
         /\ UNCHANGED <<instrument_, buffer_, ws_timer, phase_time, cerr,
                        cout, decoded, sent, wire>>

\* on_ssl_handshake without the call of expires_never()
on_ssl_handshake_keeps_deadline(ec) ==
    IF ec # "ok"
    THEN /\ fail(ec, "ssl_handshake")
         /\ UNCHANGED <<host_, instrument_, buffer_, tcp_timer, ws_timer,
                        phase_time, cout, decoded, sent, wire>>
    ELSE /\ ws_timer' = ExpiresAfter(WsHandshakeTimeout)
         /\ pending' = Issue(pending, "handshake", <<host_, "/ws/api/v2">>)
         /\ ops' = Append(ops, "handshake")
         /\ use_count' = use_count + 1 - 1
         /\ lifecycle_state' = "ProtocolHandshaking"
         /\ UNCHANGED <<host_, instrument_, buffer_, tcp_timer, phase_time,
                        cerr, cout, decoded, sent, wire>>

\* expires_never() ends the watch of the tcp_stream's timer, and with it the
\* measurement kept in phase_time; the upgrade runs under the handshake
\* timeout that timeout::suggested(client) gives the websocket layer
on_ssl_handshake(ec) ==
    IF ec # "ok"
    THEN /\ fail(ec, "ssl_handshake")
         /\ UNCHANGED <<host_, instrument_, buffer_, tcp_timer, ws_timer,
                        phase_time, cout, decoded, sent, wire>>
    ELSE /\ tcp_timer' = Never
         /\ phase_time' = [connect |-> 0, tls |-> 0]
         /\ ws_timer' = ExpiresAfter(WsHandshakeTimeout)
         /\ pending' = Issue(pending, "handshake", <<host_, "/ws/api/v2">>)
         /\ ops' = Append(ops, "handshake")
         /\ use_count' = use_count + 1 - 1
         /\ lifecycle_state' = "ProtocolHandshaking"
         /\ UNCHANGED <<host_, instrument_, buffer_, cerr, cout, decoded,
                        sent, wire>>

\* The write is given a buffer over the message composed for instrument_
subscribe_to_orderbook ==
    /\ pending' = Issue(pending, "write", Subscription(instrument_))
    /\ ops' = Append(ops, "write")
    /\ use_count' = use_count + 1 - 1
    /\ lifecycle_state' = "Subscribing"

on_handshake(ec) ==
    IF ec # "ok"
    THEN /\ fail(ec, "handshake")
         /\ UNCHANGED <<host_, instrument_, buffer_, tcp_timer, ws_timer,
                        phase_time, cout, decoded, sent, wire>>
    ELSE /\ subscribe_to_orderbook
         /\ UNCHANGED <<host_, instrument_, buffer_, tcp_timer, ws_timer,
                        phase_time, cerr, cout, decoded, sent, wire>>

\* read() that starts two receives at once
read_twice(p) == Issue(Issue(p, "read", <<>>), "read", <<>>)

\* WebSocketClient::read as a function of the bag it adds its operation to
read(p) == Issue(p, "read", <<>>)

on_write(ec) ==
    IF ec # "ok"
    THEN /\ fail(ec, "write")
         /\ UNCHANGED <<host_, instrument_, buffer_, tcp_timer, ws_timer,
                        phase_time, cout, decoded, sent, wire>>
    ELSE /\ pending' = read(pending)
         /\ ops' = Append(ops, "read")
         /\ use_count' = use_count + 1 - 1
         /\ lifecycle_state' = "Streaming"
         /\ UNCHANGED <<host_, instrument_, buffer_, tcp_timer, ws_timer,
                        phase_time, cerr, cout, decoded, sent, wire>>

\* on_read that treats a payload Json rejects like an I/O error
on_read_strict(ec) ==
    IF ec # "ok" \/ ~JsonOK(buffer_)
    THEN /\ fail(IF ec # "ok" THEN ec ELSE "parse_error", "read")
         /\ UNCHANGED <<host_, instrument_, buffer_, tcp_timer, ws_timer,
                        phase_time, cout, decoded, sent, wire>>
    ELSE /\ decoded' = Append(decoded, buffer_)
         /\ cout' = Append(cout, <<"Received message:", JsonRoot(buffer_)>>)
         /\ cerr' = cerr
         /\ buffer_' = Consume(buffer_, Len(buffer_))
         /\ pending' = Issue(pending, "read", <<>>)
         /\ ops' = Append(ops, "read")
         /\ use_count' = use_count + 1 - 1
         /\ lifecycle_state' = "Streaming"
         /\ UNCHANGED <<host_, instrument_, tcp_timer, ws_timer, phase_time,
                        sent, wire>>

\* data is everything buffer_ holds; a document Json accepts goes to
\* std::cout, anything else is reported on std::cerr; then the buffer is
\* emptied and the next read queued
on_read(ec) ==
    IF ec # "ok"
    THEN /\ fail(ec, "read")
         /\ UNCHANGED <<host_, instrument_, buffer_, tcp_timer, ws_timer,
                        phase_time, cout, decoded, sent, wire>>
    ELSE LET data == buffer_ IN
         /\ decoded' = Append(decoded, data)
         /\ IF JsonOK(data)
            THEN /\ cout' = Append(cout, <<"Received message:", JsonRoot(data)>>)
                 /\ cerr' = cerr
            ELSE /\ cerr' = Append(cerr, <<"Failed to parse JSON: ", data>>)
                 /\ cout' = cout
         /\ buffer_' = Consume(buffer_, Len(buffer_))
         /\ pending' = read(pending)
         /\ ops' = Append(ops, "read")
         /\ use_count' = use_count + 1 - 1
         /\ lifecycle_state' = "Streaming"
         /\ UNCHANGED <<host_, instrument_, tcp_timer, ws_timer, phase_time,
                        sent, wire>>

----------------------------------------------------------------------------
(* io_context::run invokes the handler of the oldest completed operation *)

Completed(name) == ready # <<>> /\ Head(ready).op = name

DispatchResolve ==
    /\ Completed("resolve")
    /\ ready' = Tail(ready)
    /\ on_resolve(Head(ready).ec, Head(ready).arg)
    /\ UNCHANGED <<peer_cert, outside>>

DispatchConnect ==
    /\ Completed("connect")
    /\ ready' = Tail(ready)
    /\ on_connect(Head(ready).ec, Head(ready).arg)
    /\ UNCHANGED <<peer_cert, outside>>

DispatchSslHandshake ==
    /\ Completed("ssl_handshake")
    /\ ready' = Tail(ready)
    /\ on_ssl_handshake(Head(ready).ec)
    /\ UNCHANGED <<peer_cert, outside>>

DispatchHandshake ==
    /\ Completed("handshake")
    /\ ready' = Tail(ready)
    /\ on_handshake(Head(ready).ec)
    /\ UNCHANGED <<peer_cert, outside>>

DispatchWrite ==
    /\ Completed("write")
    /\ ready' = Tail(ready)
    /\ on_write(Head(ready).ec)
    /\ UNCHANGED <<peer_cert, outside>>

\* on_read in a class whose buffer_ is shared by all sessions
DispatchRead_static_buffer ==
    /\ Completed("read")
    /\ ready' = Tail(ready)
    /\ on_read(Head(ready).ec)
    /\ other' = IF other = <<>> THEN other ELSE [other EXCEPT !.buffer_ = <<>>]
    /\ UNCHANGED <<peer_cert, ctx, argc, main_pc, exit_status>>

DispatchRead ==
    /\ Completed("read")
    /\ ready' = Tail(ready)
    /\ on_read(Head(ready).ec)
    /\ UNCHANGED <<peer_cert, outside>>

Dispatch ==
    \/ DispatchResolve
    \/ DispatchConnect
    \/ DispatchSslHandshake
    \/ DispatchHandshake
    \/ DispatchWrite
    \/ DispatchRead

Next ==
    \/ Usage
    \/ Setup
    \/ SetupThrows
    \/ Run
    \/ IocReturn
    \/ CompleteError
    \/ ResolveDone
    \/ ConnectDone
    \/ SslHandshakeDone
    \/ HandshakeDone
    \/ WriteDone
    \/ ReadDone
    \/ Expire
    \/ Tick
    \/ Dispatch

Spec == Init /\ [][Next]_vars

\* The event loop runs every queued handler and returns when it has no
\* work, an expired timer cancels its operation, and time does not stop
FairSpec ==
    Spec /\ WF_vars(Dispatch) /\ WF_vars(Expire) /\ WF_vars(Tick)
         /\ WF_vars(IocReturn)

TypeOK ==
    /\ lifecycle_state \in {"Idle", "Resolving", "Connecting", "TlsHandshaking",
                            "ProtocolHandshaking", "Subscribing", "Streaming",
                            "Failed"}
    /\ IsABag(pending)
    /\ use_count \in Nat
    /\ Len(wire) <= MaxMsgs
    /\ peer_cert \in Certs \cup {NoCert}
    /\ ctx \in {DefaultContext, SslContext}
    /\ main_pc \in {"start", "constructed", "ioc_run", "returned"}
    /\ exit_status \in {NotExited, EXIT_SUCCESS, EXIT_FAILURE}


----------------------------------------------------------------------------
(* Two sessions on one io_context.  The variables of the session hold the  *)
(* state of the session whose operation completes or whose handler runs    *)
(* next; other holds the members of the second object.  std::cerr and      *)
(* std::cout belong to the process and are shared.                         *)

\* The members of the session at hand, as one value
Members ==
    [lifecycle_state |-> lifecycle_state, pending |-> pending,
     ready |-> ready, ops |-> ops, host_ |-> host_,
     instrument_ |-> instrument_, buffer_ |-> buffer_,
     tcp_timer |-> tcp_timer, ws_timer |-> ws_timer,
     phase_time |-> phase_time, use_count |-> use_count,
     decoded |-> decoded, sent |-> sent, wire |-> wire,
     peer_cert |-> peer_cert]

\* Both objects made by make_shared<WebSocketClient>(ioc, ctx) and neither
\* started: the state of Init after Setup, twice
Init2 ==
    /\ lifecycle_state = "Idle"
    /\ pending = EmptyBag
    /\ ready = <<>>
    /\ ops = <<>>
    /\ host_ = <<>>
    /\ instrument_ = ""
    /\ buffer_ = <<>>
    /\ tcp_timer = Never
    /\ ws_timer = Never
    /\ phase_time = [connect |-> 0, tls |-> 0]
    /\ use_count = 1
    /\ cerr = <<>>
    /\ cout = <<>>
    /\ decoded = <<>>
    /\ sent = <<>>
    /\ wire = <<>>
    /\ peer_cert = NoCert
    /\ ctx = SslContext
    /\ argc = 2
    /\ main_pc = "constructed"
    /\ exit_status = NotExited
    /\ other = Members

\* The io_context turns to the other session: its next event is an event
\* of that object.  No member of either object changes.
Switch ==
    /\ other' = Members
    /\ lifecycle_state' = other.lifecycle_state
    /\ pending' = other.pending
    /\ ready' = other.ready
    /\ ops' = other.ops
    /\ host_' = other.host_
    /\ instrument_' = other.instrument_
    /\ buffer_' = other.buffer_
    /\ tcp_timer' = other.tcp_timer
    /\ ws_timer' = other.ws_timer
    /\ phase_time' = other.phase_time
    /\ use_count' = other.use_count
    /\ decoded' = other.decoded
    /\ sent' = other.sent
    /\ wire' = other.wire
    /\ peer_cert' = other.peer_cert
    /\ UNCHANGED <<cerr, cout, ctx, argc, main_pc, exit_status>>

\* A session is launched as main launches its one session, with the host
\* and the port main gives
Run2 ==
    /\ use_count = 1
    /\ \E instrument \in Instruments :
          run("www.deribit.com", <<"4", "4", "3">>, instrument)
    /\ main_pc' = "ioc_run"
    /\ UNCHANGED <<peer_cert, ctx, argc, exit_status, other>>

\* A message arrives for the session at hand, while the two sessions
\* together have received fewer than MaxMsgs2
ReadDone2 ==
    /\ Len(wire) + Len(other.wire) < MaxMsgs2
    /\ ReadDone

\* The steps of the sessions, interleaved in every order.  Time is left
\* out: no timer runs down, so no operation times out.
Next2 ==
    \/ Switch
    \/ Run2
    \/ CompleteError
    \/ ResolveDone
    \/ ConnectDone
    \/ SslHandshakeDone
    \/ HandshakeDone
    \/ WriteDone
    \/ ReadDone2
    \/ Dispatch

Spec2 == Init2 /\ [][Next2]_vars

----------------------------------------------------------------------------
(* Vocabulary of the properties *)

ActiveStates == {"Resolving", "Connecting", "TlsHandshaking",
                 "ProtocolHandshaking", "Subscribing", "Streaming"}

Order == <<"Idle", "Resolving", "Connecting", "TlsHandshaking",
           "ProtocolHandshaking", "Subscribing", "Streaming", "Failed">>

Rank(s) == CHOOSE i \in 1..Len(Order) : Order[i] = s

\* The stage that follows s when its operation succeeds
SuccOf(s) == IF s \in {"Streaming", "Failed"} THEN s ELSE Order[Rank(s) + 1]

\* The tag under which the failure of a stage's operation is reported
PhaseTag(s) ==
    CASE s = "Resolving" -> "resolve"
      [] s = "Connecting" -> "connect"
      [] s = "TlsHandshaking" -> "ssl_handshake"
      [] s = "ProtocolHandshaking" -> "handshake"
      [] s = "Subscribing" -> "write"
      [] s = "Streaming" -> "read"
      [] OTHER -> "none"

PhaseTags == {PhaseTag(s) : s \in ActiveStates}

IsFatal(line) == line[1] \in PhaseTags
FatalDiags == SelectSeq(cerr, IsFatal)

Last(q) == q[Len(q)]

\* This step is the event loop invoking the handler at the head of the queue
HandlerStep == ready # <<>> /\ ready' = Tail(ready)
HandlerGot(ec) == HandlerStep /\ Head(ready).ec = ec
HandlerGotError == HandlerStep /\ Head(ready).ec # "ok"

ReadInFlight == \E o \in BagToSet(pending) : o.op = "read"

----------------------------------------------------------------------------
\* C1: in every state of the six working stages exactly one asynchronous
\* operation of the session is outstanding (issued, handler not yet run);
\* never are two outstanding; and an operation is issued only by run (the
\* first) or inside the handler that completes the operation issued last.
C1_OneOutstanding ==
    /\ [](Outstanding <= 1)
    /\ [](lifecycle_state \in ActiveStates => Outstanding = 1)
    /\ [][ops' # ops =>
            /\ Len(ops') = Len(ops) + 1
            /\ \/ ops = <<>> /\ lifecycle_state = "Idle"
               \/ HandlerStep /\ Head(ready).op = Last(ops)]_vars

C1_Witness ==
    /\ lifecycle_state = "Streaming"
    /\ Len(decoded) >= 2
    /\ Outstanding = 1
    /\ ReadInFlight

\* C2: a handler that is given success moves the session to the next stage
\* of Resolving, Connecting, TlsHandshaking, ProtocolHandshaking,
\* Subscribing, Streaming, none skipped or repeated; no step ever lowers the
\* stage; the only handler step that keeps the stage is the one of Streaming.
C2_ForwardOrder ==
    [][/\ Rank(lifecycle_state') >= Rank(lifecycle_state)
       /\ lifecycle_state' # lifecycle_state =>
             lifecycle_state' \in {SuccOf(lifecycle_state), "Failed"}
       /\ HandlerGot("ok") => lifecycle_state' = SuccOf(lifecycle_state)
       /\ (HandlerStep /\ lifecycle_state' = lifecycle_state) =>
             lifecycle_state = "Streaming"]_vars

C2_Witness ==
    /\ lifecycle_state = "Streaming"
    /\ ops = <<"resolve", "connect", "ssl_handshake", "handshake", "write",
               "read", "read">>
    /\ cerr = <<>>

\* C3: a handler that is given an error leaves the session in Failed with
\* nothing outstanding and nothing new issued; from Failed no operation is
\* ever issued again; so the operation issued last is the one whose failure
\* was reported (no connect after a failed resolve, no TLS handshake after a
\* failed connect, no receive after a failed receive).
C3_FailedIsFinal ==
    /\ [][HandlerGotError =>
            /\ lifecycle_state' = "Failed"
            /\ ops' = ops
            /\ Outstanding' = 0]_vars
    /\ [][lifecycle_state = "Failed" =>
            /\ lifecycle_state' = "Failed"
            /\ ops' = ops
            /\ Outstanding' = 0]_vars
    /\ [](lifecycle_state = "Failed" =>
            /\ Outstanding = 0
            /\ FatalDiags # <<>>
            /\ Last(ops) = Last(FatalDiags)[1])
    /\ [](FatalDiags # <<>> => lifecycle_state = "Failed")

C3_Witness ==
    /\ lifecycle_state = "Failed"
    /\ Last(ops) = "read"
    /\ Len(decoded) >= 1
    /\ Last(cerr) = <<"read", "connection_reset">>

\* C4: every step into Failed appends exactly one line to the diagnostics,
\* made of the tag of the stage whose operation failed and the error the
\* handler was given; a session never holds more than one such line, and is
\* in Failed exactly when it holds one.
C4_OneDiagnostic ==
    /\ [][(lifecycle_state # "Failed" /\ lifecycle_state' = "Failed") =>
            /\ HandlerGotError
            /\ cerr' = Append(cerr, <<PhaseTag(lifecycle_state), Head(ready).ec>>)
            /\ cout' = cout]_vars
    /\ [](Len(FatalDiags) <= 1)
    /\ [](lifecycle_state = "Failed" <=> Len(FatalDiags) = 1)

C4_Witness ==
    /\ lifecycle_state = "Failed"
    /\ cerr = << <<"ssl_handshake", "certificate_verify_failed">> >>

\* C5: when the handler of a receive is given success and the payload does
\* not decode, the session stays in Streaming, the failure is written to the
\* diagnostics as a parse failure (not as a fatal line), the buffer is
\* emptied and one new receive is issued, the same as after a payload that
\* decodes; the payload still counts as handed to the decoder.
C5_DecodeErrorNotFatal ==
    [][(Completed("read") /\ HandlerGot("ok") /\ ~JsonOK(buffer_)) =>
          /\ lifecycle_state' = "Streaming"
          /\ cerr' = Append(cerr, <<"Failed to parse JSON: ", buffer_>>)
          /\ FatalDiags' = <<>>
          /\ cout' = cout
          /\ decoded' = Append(decoded, buffer_)
          /\ buffer_' = <<>>
          /\ ops' = Append(ops, "read")
          /\ pending' = SetToBag({Op("read", <<>>)})
          /\ ready' = <<>>]_vars

\* a payload that did not decode was reported, and a later one was decoded
C5_Witness ==
    /\ lifecycle_state = "Streaming"
    /\ Len(wire) >= 2
    /\ wire[1] \in BadMsgs
    /\ cerr = << <<"Failed to parse JSON: ", wire[1]>> >>
    /\ cout = << <<"Received message:", wire[2]>> >>
    /\ ReadInFlight

\* C6: the buffer is empty whenever a receive is issued and while it is in
\* flight; it never holds more than one message (the whole message of the
\* receive that completed and is not handled yet, or the beginning of one
\* that failed); the handler hands the decoder what the buffer holds (before
\* emptying it) and leaves the buffer empty when it issues the next receive.
C6_BufferDrained ==
    /\ [](ReadInFlight => buffer_ = <<>>)
    /\ [](buffer_ # <<>> => \E m \in Msgs : IsPrefix(buffer_, m))
    /\ []((Completed("read") /\ Head(ready).ec = "ok") =>
            /\ wire # <<>>
            /\ buffer_ = Last(wire))
    /\ [][(ops' # ops /\ Last(ops') = "read") => buffer_' = <<>>]_vars
    /\ [][(Completed("read") /\ HandlerGot("ok")) =>
            /\ decoded' = Append(decoded, buffer_)
            /\ buffer_' = <<>>]_vars

C6_Witness ==
    /\ Len(decoded) >= 2
    /\ decoded[1] # <<>>
    /\ decoded[2] # <<>>
    /\ ReadInFlight
    /\ buffer_ = <<>>

\* C8: the payloads handed to the decoder are, in order, the messages the
\* wire delivered: decoded is a prefix of wire, it lacks at most the one
\* message whose handler has not run yet, and lacks none otherwise.
C8_DecodedIsPrefixOfWire ==
    /\ IsPrefix(decoded, wire)
    /\ Len(wire) - Len(decoded) = (IF Completed("read") /\ Head(ready).ec = "ok"
                                   THEN 1 ELSE 0)

C8_Witness ==
    /\ Len(decoded) = 3
    /\ decoded = wire
    /\ decoded[1] # decoded[2]
    /\ decoded[2] # decoded[3]

Count(x, q) == Cardinality({i \in 1..Len(q) : q[i] = x})

InFlight(name) == \E o \in BagToSet(pending) : o.op = name

\* C7: the subscription is sent at most once, and exactly once in a run that
\* reaches Streaming; its write is issued by the handler of the successful
\* upgrade and before any receive; what is transmitted is the request for
\* the channel "book." + instrument + ".100ms" of the instrument given to
\* run, which no later step changes; and the handler of the completed write
\* enters Streaming by issuing the first receive, nothing having arrived.
C7_SubscribeOnce ==
    /\ [](Count("write", ops) <= 1 /\ Len(sent) <= 1)
    /\ [](lifecycle_state = "Streaming" =>
            Count("write", ops) = 1 /\ Len(sent) = 1)
    /\ [][ops' # ops /\ Last(ops') = "write" =>
            /\ Completed("handshake")
            /\ HandlerGot("ok")
            /\ Count("read", ops) = 0]_vars
    /\ [](\A i \in 1..Len(sent) : sent[i] = Subscription(instrument_))
    /\ [][lifecycle_state # "Idle" => instrument_' = instrument_]_vars
    /\ [][(Completed("write") /\ HandlerGot("ok")) =>
            /\ lifecycle_state' = "Streaming"
            /\ ops' = Append(ops, "read")
            /\ wire' = <<>>]_vars

\* C9: a connect or a TLS handshake still in flight when its 30 units are
\* used up leads to Failed with the timeout reported under that phase; the
\* session leaves Connecting and leaves TlsHandshaking in every run; and a
\* connect that timed out is never followed by a TLS handshake.
C9_TimeoutFails ==
    /\ (InFlight("connect") /\ phase_time.connect = ConnectTimeout)
          ~> (lifecycle_state = "Failed" /\ cerr = << <<"connect", "timeout">> >>)
    /\ (InFlight("ssl_handshake") /\ phase_time.tls = SslHandshakeTimeout)
          ~> (lifecycle_state = "Failed"
                /\ cerr = << <<"ssl_handshake", "timeout">> >>)
    /\ (lifecycle_state = "Connecting") ~> (lifecycle_state # "Connecting")
    /\ (lifecycle_state = "TlsHandshaking")
          ~> (lifecycle_state # "TlsHandshaking")
    /\ [](InFlight("connect") =>
            (Expired(tcp_timer) <=> phase_time.connect = ConnectTimeout))
    /\ [](InFlight("ssl_handshake") =>
            (Expired(tcp_timer) <=> phase_time.tls = SslHandshakeTimeout))
    /\ []((cerr # <<>> /\ cerr[1] = <<"connect", "timeout">>) =>
            Count("ssl_handshake", ops) = 0)

C9_Witness ==
    /\ lifecycle_state = "Failed"
    /\ cerr = << <<"ssl_handshake", "timeout">> >>
    /\ phase_time.tls = SslHandshakeTimeout

\* C10 as claimed: the time spent in Connecting and in TlsHandshaking
\* together never exceeds the one budget of 30 units.
C10_SharedBudget ==
    phase_time.connect + phase_time.tls <= ConnectTimeout

\* C10 as amended: on_connect arms a new deadline of 30 units for the TLS
\* handshake, counted from the completion of the connect.  The time in
\* Connecting never exceeds 30, the time in TlsHandshaking never exceeds 30
\* (so their sum never exceeds 60), and during TlsHandshaking the deadline
\* is 30 units after the handshake was started, whatever the connect took.
C10_BudgetPerPhase ==
    /\ phase_time.connect <= ConnectTimeout
    /\ phase_time.tls <= SslHandshakeTimeout
    /\ phase_time.connect + phase_time.tls <= ConnectTimeout + SslHandshakeTimeout
    /\ lifecycle_state = "Connecting" =>
          tcp_timer = ExpiresAfter(ConnectTimeout - phase_time.connect)
    /\ lifecycle_state = "TlsHandshaking" =>
          tcp_timer = ExpiresAfter(SslHandshakeTimeout - phase_time.tls)

\* the TLS handshake timed out later than 30 units after the connect began
C10_Witness ==
    /\ lifecycle_state = "Failed"
    /\ cerr = << <<"ssl_handshake", "timeout">> >>
    /\ phase_time.connect > 0
    /\ phase_time.connect + phase_time.tls > ConnectTimeout

----------------------------------------------------------------------------
\* C11: the successful TLS handshake disarms the deadline of the connect
\* phase in the step that issues the upgrade, and nothing arms it again: in
\* ProtocolHandshaking, Subscribing and Streaming the tcp_stream's timer is
\* off.  In Streaming no timer of any layer is armed, so no expiry is
\* possible while the peer is silent, no read ever completes with a timeout,
\* and the session leaves Streaming only through a read that completed with
\* an error other than a timeout.
AfterTls == {"ProtocolHandshaking", "Subscribing", "Streaming"}

C11_DeadlineOffAfterTls ==
    /\ [](lifecycle_state \in AfterTls => tcp_timer = Never)
    /\ [](lifecycle_state = "Streaming" =>
            /\ ws_timer = Never
            /\ ~ ENABLED Expire
            /\ \A i \in 1..Len(ready) : ready[i].ec # "timeout")
    /\ [][/\ (lifecycle_state = "TlsHandshaking" /\ HandlerGot("ok")) =>
               (tcp_timer' = Never /\ Last(ops') = "handshake")
          /\ (lifecycle_state \in AfterTls) => (tcp_timer' = Never)
          /\ (lifecycle_state = "Streaming" /\ lifecycle_state' # "Streaming")
               => (/\ HandlerGotError
                   /\ Head(ready).op = "read"
                   /\ Head(ready).ec # "timeout")]_vars

\* a session in Streaming, waiting for a peer that has sent all it will
\* send, with the connect-phase deadline off
C11_Witness ==
    /\ lifecycle_state = "Streaming"
    /\ ReadInFlight
    /\ Len(wire) = MaxMsgs
    /\ Len(decoded) = MaxMsgs
    /\ tcp_timer = Never

----------------------------------------------------------------------------
\* C12: from the moment the session is made the context verifies the peer
\* against the default trust store, in every run.  A TLS handshake in which
\* the peer presented a chain that does not lead to the trust store
\* completes with an error: the session goes from TlsHandshaking to Failed
\* with the one diagnostic tagged ssl_handshake, never issues the upgrade or
\* the subscription, and nothing is written.  Application data is written
\* only on a stream whose TLS handshake verified the peer's chain.
SessionMade == main_pc \in {"constructed", "ioc_run"} \/ lifecycle_state # "Idle"

C12_UntrustedPeerRejected ==
    /\ SessionMade => ctx = SslContext
    /\ peer_cert.chain = "untrusted" =>
         /\ Count("handshake", ops) = 0
         /\ Count("write", ops) = 0
         /\ sent = <<>>
         /\ \/ /\ lifecycle_state = "TlsHandshaking"
               /\ ready = <<Completion("ssl_handshake",
                                       "certificate_verify_failed", <<>>)>>
            \/ /\ lifecycle_state = "Failed"
               /\ cerr = << <<"ssl_handshake", "certificate_verify_failed">> >>
    /\ (Count("write", ops) > 0 \/ sent # <<>>) => peer_cert.chain = "trusted"

\* a peer with an untrusted chain has been refused
C12_Witness ==
    /\ peer_cert.chain = "untrusted"
    /\ lifecycle_state = "Failed"
    /\ FatalDiags = << <<"ssl_handshake", "certificate_verify_failed">> >>

----------------------------------------------------------------------------
\* C13 as claimed: the TLS handshake checks the peer against the host name
\* the session was started for.  A peer whose certificate names another
\* host, trusted chain or not, is refused: the upgrade is never issued and
\* the session never reaches ProtocolHandshaking or a later state.
C13_NameVerified ==
    (peer_cert # NoCert /\ peer_cert.name # host_[1]) =>
        /\ Count("handshake", ops) = 0
        /\ lifecycle_state \in {"TlsHandshaking", "Failed"}

----------------------------------------------------------------------------
\* C14 as claimed: a close by the peer is not a failure.  The session does
\* not go to Failed on it and no fatal diagnostic is written for it.
C14_PeerCloseIsNotFailure ==
    \A i \in 1..Len(cerr) : ~ (IsFatal(cerr[i]) /\ cerr[i][2] = "closed")

----------------------------------------------------------------------------
\* C15 as claimed: the value main returns tells the outcomes apart.  After
\* a usage error it is EXIT_FAILURE; after a session that failed in any
\* phase it is neither the value of a clean end of main (EXIT_SUCCESS) nor
\* the value of the usage error.
C15_ExitStatusTellsOutcome ==
    main_pc = "returned" =>
        /\ argc # 2 => exit_status = EXIT_FAILURE
        /\ FatalDiags # <<>> => exit_status \notin {EXIT_SUCCESS, EXIT_FAILURE}

----------------------------------------------------------------------------
\* C16: while an operation of the session is outstanding, in flight or
\* completed with its handler still queued, the session object is owned:
\* its use count is at least 1.  Once run has been called main's temporary
\* is gone and the owners are exactly the continuations of the outstanding
\* operations, so every handler runs on a live object.
C16_AliveWhileOutstanding ==
    /\ Outstanding >= 1 => use_count >= 1
    /\ lifecycle_state # "Idle" => use_count = Outstanding
    /\ lifecycle_state \notin {"Idle", "Failed"} =>
          (main_pc = "ioc_run" /\ use_count = 1)

\* the handler of a completed read is about to run on a session that only
\* that handler owns
C16_Witness ==
    /\ lifecycle_state = "Streaming"
    /\ ready # <<>>
    /\ Head(ready).op = "read"
    /\ pending = EmptyBag
    /\ use_count = 1
    /\ main_pc = "ioc_run"

----------------------------------------------------------------------------
\* C17: run sets host_ to the host name.  After that host_ changes in one
\* step only: the handler of a successful connect appends ":" and the
\* decimal port of the endpoint that connected, in the step that issues the
\* TLS handshake.  From TlsHandshaking on host_ is host:port with the port
\* appended once, and the upgrade is issued with exactly that value as its
\* authority.
PortOf(ep) == CHOOSE p \in Ports : ParsePort(p) = ep.port

C17_HostSetOnce ==
    /\ [](lifecycle_state \in {"TlsHandshaking"} \cup AfterTls =>
            \E h \in Hosts, p \in Ports : host_ = <<h, ":">> \o p)
    /\ [](\A o \in BagToSet(pending) :
            o.op = "handshake" => o.arg = <<host_, "/ws/api/v2">>)
    /\ [][host_' # host_ =>
            \/ /\ lifecycle_state = "Idle"
               /\ host_' \in {<<h>> : h \in Hosts}
            \/ /\ lifecycle_state = "Connecting"
               /\ HandlerGot("ok")
               /\ host_' = host_ \o <<":">> \o PortOf(Head(ready).arg)
               /\ lifecycle_state' = "TlsHandshaking"
               /\ Last(ops') = "ssl_handshake"]_vars
    /\ [][(lifecycle_state = "Connecting" /\ HandlerGot("ok")) =>
            host_' # host_]_vars

\* the upgrade is outstanding with the authority www.deribit.com:443
C17_Witness ==
    /\ lifecycle_state = "ProtocolHandshaking"
    /\ InFlight("handshake")
    /\ host_ = <<"www.deribit.com", ":", "4", "4", "3">>


----------------------------------------------------------------------------
\* C18: with two sessions on one event loop, under every interleaving of
\* their completions and handlers, a step of one session changes no member
\* of the other: the second object's members change in no step, except that
\* the loop turns from one object to the other, which changes no member of
\* either.  In particular the step in which a session fails and writes its
\* diagnostic leaves the other object as it was, and a session in a working
\* stage always has a step of its own to take, whatever has become of the
\* other.  Each session by itself has exactly one operation outstanding in
\* every working stage and moves only forward.
OutstandingOf(m) == BagCardinality(m.pending) + Len(m.ready)

SessionStep ==
    \/ CompleteError
    \/ ResolveDone
    \/ ConnectDone
    \/ SslHandshakeDone
    \/ HandshakeDone
    \/ WriteDone
    \/ Dispatch

C18_SessionsIndependent ==
    /\ [][other' # other => (other' = Members /\ Members' = other)]_vars
    /\ [][cerr' # cerr => other' = other]_vars
    /\ [][other' = other =>
            lifecycle_state' \in
                {lifecycle_state, SuccOf(lifecycle_state), "Failed"}]_vars
    /\ [](lifecycle_state \in ActiveStates =>
            (Outstanding = 1 /\ ENABLED SessionStep))
    /\ [](other.lifecycle_state \in ActiveStates => OutstandingOf(other) = 1)
    /\ [](lifecycle_state = "Failed" => Outstanding = 0)
    /\ [](other.lifecycle_state = "Failed" => OutstandingOf(other) = 0)

\* one session failed at the lookup; the other, started for another
\* instrument, went on to stream and has handled a message
C18_Witness ==
    /\ other # <<>>
    /\ other.lifecycle_state = "Failed"
    /\ other.ops = <<"resolve">>
    /\ lifecycle_state = "Streaming"
    /\ instrument_ # other.instrument_
    /\ Len(decoded) = 1
    /\ Len(cerr) >= 1
    /\ cerr[1] = <<"resolve", "host_not_found">>

----------------------------------------------------------------------------
\* C19: in Failed the session has no owner (use count 0: the last
\* continuation released it), nothing of it is in flight and no handler of
\* it is queued, and the event loop, left without work, returns: main
\* returns some time after the session failed.  While the session is in a
\* working stage ioc.run() has not returned.  A process that started its
\* session has terminated only if the session is in Failed, the one
\* terminal state, and terminates whenever it gets there.
C19_TerminatesIffTerminal ==
    /\ [](lifecycle_state = "Failed" =>
            /\ use_count = 0
            /\ pending = EmptyBag
            /\ ready = <<>>)
    /\ [](lifecycle_state \in ActiveStates =>
            (main_pc = "ioc_run" /\ exit_status = NotExited))
    /\ []((main_pc = "returned" /\ lifecycle_state # "Idle") =>
            lifecycle_state = "Failed")
    /\ [][main_pc' = "returned" /\ main_pc = "ioc_run" =>
            (lifecycle_state = "Failed" /\ use_count = 0)]_vars
    /\ (lifecycle_state = "Failed" ~> main_pc = "returned")

\* main has returned after a session that streamed and then failed
C19_Witness ==
    /\ main_pc = "returned"
    /\ lifecycle_state = "Failed"
    /\ use_count = 0
    /\ Len(decoded) >= 1
    /\ FatalDiags = << <<"read", "connection_reset">> >>

====
